---- MODULE Spec2Model ----
(***************************************************************************)
(* Model of run_workflow.py: the send_notification worker, the workflow    *)
(* chain built by create_support_triage_workflow, and main's submission    *)
(* loop.                                                                   *)
(***************************************************************************)
EXTENDS Integers, Sequences, FiniteSets, TLC

(***************************************************************************)
(* Bounds of the model.                                                    *)
(***************************************************************************)
\* Largest value the wall clock reaches (seconds after 10:30:00Z).
MaxClock == 1
\* Number of requests the dispatcher delivers concurrently.
NumRequests == 2

(***************************************************************************)
(* Python values.  A value carries its type, so that None, the empty       *)
(* string and the string "None" are three different values.                *)
(***************************************************************************)
Str(s) == [t |-> "str", v |-> s]
None == [t |-> "NoneType", v |-> ""]
KeyError(k) == [t |-> "KeyError", v |-> k]
IsException(x) == x.t = "KeyError"

\* d.get(k, default): the default is used only when the key is missing.
DictGet(d, k, default) == IF k \in DOMAIN d THEN d[k] ELSE default

\* x in xs, for a list xs.
In(x, xs) == \E i \in 1..Len(xs) : xs[i] = x
\* list.extend(items) and list.append(item), as the new contents of the list.
ListExtend(xs, items) == xs \o items
ListAppend(xs, item) == Append(xs, item)

(***************************************************************************)
(* send_notification(task_input), lines 79-102.                            *)
(***************************************************************************)
UrgentLevels == <<Str("critical"), Str("high")>>
UrgentChannels == <<Str("slack"), Str("email"), Str("pagerduty")>>
DefaultChannel == Str("email")
DefaultTeam == Str("support-team")
FixedTimestamp == Str("2025-01-15T10:30:00Z")

\* line 92 matching without regard to case.
IsUrgent_caseless(urgency) ==
    In(IF urgency = Str("HIGH") THEN Str("high") ELSE urgency, UrgentLevels)
\* line 92 testing for 'critical' alone.
IsUrgent_onlycritical(urgency) == urgency = Str("critical")
\* line 92: urgency in ['critical', 'high']
IsUrgent(urgency) == In(urgency, UrgentLevels)

\* lines 92-95 with a branch on the category as well.
FillChannels_bycategory(start, urgency, category) ==
    IF IsUrgent(urgency) \/ category = Str("billing")
    THEN ListExtend(start, UrgentChannels)
    ELSE ListAppend(start, DefaultChannel)
\* lines 92-95: the contents of notification_channels after the branch, from
\* the contents `start` it had before.
FillChannels(start, urgency, category) ==
    IF IsUrgent(urgency)
    THEN ListExtend(start, UrgentChannels)
    ELSE ListAppend(start, DefaultChannel)

\* line 84 ignoring the payload.
AssignedTo_fixed(task_input) == DefaultTeam
\* line 84 as task_input.get('assigned_to') or 'support-team'.
AssignedTo_or(task_input) ==
    IF DictGet(task_input, "assigned_to", None) \in {None, Str("")}
    THEN DefaultTeam
    ELSE DictGet(task_input, "assigned_to", None)
\* line 84: assigned_to = task_input.get('assigned_to', 'support-team')
AssignedTo(task_input) == DictGet(task_input, "assigned_to", DefaultTeam)

\* line 82 as task_input['urgency'], which raises when the key is missing.
Urgency_index(task_input) ==
    IF "urgency" \in DOMAIN task_input THEN task_input["urgency"] ELSE KeyError("urgency")
\* line 82: urgency = task_input.get('urgency')
Urgency(task_input) == DictGet(task_input, "urgency", None)

\* lines 97-102: the returned dict.
ResultDict(channels, assigned_to) ==
    [notification_sent |-> TRUE,
     channels |-> channels,
     timestamp |-> FixedTimestamp,
     assigned_team |-> assigned_to]

Returned(value) == [raised |-> FALSE, value |-> value]
Raised(exc) == [raised |-> TRUE, value |-> exc]

\* The whole call: either the returned dict or the exception that escaped.
send_notification(task_input) ==
    LET ticket_id == DictGet(task_input, "ticket_id", None)
        urgency == Urgency(task_input)
        category == DictGet(task_input, "category", None)
        assigned_to == AssignedTo(task_input)
        locals == <<ticket_id, urgency, category, assigned_to>>
        notification_channels == FillChannels(<<>>, urgency, category)
    IN  IF \E i \in 1..Len(locals) : IsException(locals[i])
        THEN Raised(CHOOSE x \in {locals[i] : i \in 1..Len(locals)} : IsException(x))
        ELSE Returned(ResultDict(notification_channels, assigned_to))

(***************************************************************************)
(* Payloads the dispatcher delivers: any subset of the four keys, each     *)
(* mapped to a string.                                                     *)
(***************************************************************************)
Keys == {"ticket_id", "urgency", "category", "assigned_to"}
ValuesOf(k) ==
    CASE k = "ticket_id" -> {Str("TKT-001")}
      [] k = "urgency" -> {Str("critical"), Str("high"), Str("low"),
                           Str(""), Str("HIGH")}
      [] k = "category" -> {Str("billing"), Str("technical")}
      [] k = "assigned_to" -> {Str(""), Str("billing-team")}
AllValues == UNION {ValuesOf(k) : k \in Keys}
Payloads ==
    UNION { {p \in [S -> AllValues] : \A k \in S : p[k] \in ValuesOf(k)} : S \in SUBSET Keys }

\* The wall clock reading at tick n, as an ISO-8601 string.
ClockString(n) == Str("2025-01-15T10:30:0" \o ToString(n) \o "Z")

VARIABLES
    now,        \* the wall clock, in ticks
    calls,      \* the two most recent sequential invocations: payload, time, outcome
    task_input, \* per concurrent request: the payload dict the dispatcher passed
    delivered,  \* per concurrent request: a copy of the payload as it was delivered
    pc,         \* per concurrent request: the line send_notification is at
    frame,      \* per concurrent request: the local variables of the call
    heap,       \* the list objects allocated so far: reference -> contents
    result,     \* per concurrent request: the returned dict (channels by reference)
    mpc,        \* main: where the script is
    idx,        \* main: index in test_tickets of the ticket the loop is at
    workflow_ids, \* main: the list workflow_ids
    attempts,   \* main: the tickets passed to execute so far, with the outcome
    reported,   \* main: the numbers printed as "Total tickets processed"
    executions  \* the platform: the workflow executions started, by workflow id

seqVars == <<now, calls>>
concVars == <<task_input, delivered, pc, frame, heap, result>>
mainVars == <<mpc, idx, workflow_ids, attempts, reported>>
flowVars == <<mpc, idx, workflow_ids, attempts, reported, executions>>
vars == <<now, calls, task_input, delivered, pc, frame, heap, result,
          mpc, idx, workflow_ids, attempts, reported, executions>>

InitSeq ==
    /\ now = 0
    /\ calls = <<>>

\* Time passes.
Tick ==
    /\ now < MaxClock
    /\ now' = now + 1
    /\ UNCHANGED <<calls, concVars, flowVars>>

\* The dispatcher calls the worker with one payload and records what came back.
Dispatch ==
    \E p \in Payloads :
        LET c == [task_input |-> p, at |-> now, outcome |-> send_notification(p)]
        IN  /\ calls' = IF Len(calls) < 2 THEN Append(calls, c) ELSE <<calls[2], c>>
            /\ UNCHANGED <<now, concVars, flowVars>>

(***************************************************************************)
(* Concurrent invocations of send_notification, one per request, executed  *)
(* line by line.  Lists are objects on a heap and are held by reference.   *)
(***************************************************************************)
Requests == 1..NumRequests
NoRef == 0
NoFrame == [ticket_id |-> None, urgency |-> None, category |-> None,
            assigned_to |-> None, notification_channels |-> NoRef]
NoResult == [notification_sent |-> FALSE, channels |-> NoRef,
             timestamp |-> None, assigned_team |-> None]
ConcPayloads ==
    {p \in Payloads :
        /\ "ticket_id" \in DOMAIN p
        /\ "urgency" \in DOMAIN p => p["urgency"] \in {Str("high"), Str("low")}
        /\ "category" \in DOMAIN p => p["category"] = Str("billing")
        /\ "assigned_to" \in DOMAIN p => p["assigned_to"] = Str("billing-team")}

InitConc ==
    /\ task_input = [r \in Requests |-> <<>>]
    /\ delivered = [r \in Requests |-> <<>>]
    /\ pc = [r \in Requests |-> "idle"]
    /\ frame = [r \in Requests |-> NoFrame]
    /\ heap = <<>>
    /\ result = [r \in Requests |-> NoResult]

\* A reference no list of the heap has yet.
FreshRef(h) == Len(h) + 1

\* The task runner calls send_notification(task_input) for request r.
Invoke(r) ==
    /\ pc[r] = "idle"
    /\ \E p \in ConcPayloads :
        /\ task_input' = [task_input EXCEPT ![r] = p]
        /\ delivered' = [delivered EXCEPT ![r] = p]
    /\ pc' = [pc EXCEPT ![r] = "l81"]
    /\ UNCHANGED <<frame, heap, result, seqVars, flowVars>>

\* lines 81-84: the four reads of the payload.
L81(r) ==
    /\ pc[r] = "l81"
    /\ LET f == [ticket_id |-> DictGet(task_input[r], "ticket_id", None),
                 urgency |-> Urgency(task_input[r]),
                 category |-> DictGet(task_input[r], "category", None),
                 assigned_to |-> AssignedTo(task_input[r]),
                 notification_channels |-> NoRef]
       IN  /\ frame' = [frame EXCEPT ![r] = f]
           /\ pc' = [pc EXCEPT ![r] =
                        IF IsException(f.ticket_id) \/ IsException(f.urgency)
                           \/ IsException(f.category) \/ IsException(f.assigned_to)
                        THEN "raised" ELSE "l91"]
    /\ UNCHANGED <<task_input, delivered, heap, result, seqVars, flowVars>>

\* line 91 with one list shared by every call (a module-level or default-argument list).
L91_shared(r) ==
    /\ pc[r] = "l91"
    /\ heap' = IF Len(heap) = 0 THEN <<<<>>>> ELSE heap
    /\ frame' = [frame EXCEPT ![r].notification_channels = 1]
    /\ pc' = [pc EXCEPT ![r] = "l92"]
    /\ UNCHANGED <<task_input, delivered, result, seqVars, flowVars>>
\* line 91: notification_channels = [] binds the local to a new, empty list.
L91(r) ==
    /\ pc[r] = "l91"
    /\ heap' = Append(heap, <<>>)
    /\ frame' = [frame EXCEPT ![r].notification_channels = FreshRef(heap)]
    /\ pc' = [pc EXCEPT ![r] = "l92"]
    /\ UNCHANGED <<task_input, delivered, result, seqVars, flowVars>>

\* lines 92-95: extend or append, in place, on the list the local refers to.
L92(r) ==
    /\ pc[r] = "l92"
    /\ LET ref == frame[r].notification_channels
       IN  heap' = [heap EXCEPT ![ref] =
                        FillChannels(heap[ref], frame[r].urgency, frame[r].category)]
    /\ pc' = [pc EXCEPT ![r] = "l97"]
    /\ UNCHANGED <<task_input, delivered, frame, result, seqVars, flowVars>>

\* lines 97-102: return the dict; its channels entry is the list itself.
L97(r) ==
    /\ pc[r] = "l97"
    /\ result' = [result EXCEPT ![r] =
                    ResultDict(frame[r].notification_channels, frame[r].assigned_to)]
    /\ pc' = [pc EXCEPT ![r] = "returned"]
    /\ UNCHANGED <<task_input, delivered, frame, heap, seqVars, flowVars>>


(***************************************************************************)
(* The workflow definition, lines 50-75 and 105-159.  A template           *)
(* ${source.output.result.field} or ${workflow.input.field} is kept as the *)
(* pair of its source and its field.                                       *)
(***************************************************************************)
WorkflowInput == "workflow.input"
Template(source, field) == [source |-> source, field |-> field]

create_classifier_agent ==
    [task_reference_name |-> "classify_ticket",
     type |-> "LLM_CHAT_COMPLETE",
     templates |-> {Template(WorkflowInput, "ticket_content")},
     input_parameters |-> <<>>]

create_knowledge_agent ==
    [task_reference_name |-> "search_knowledge",
     type |-> "LLM_CHAT_COMPLETE",
     templates |-> {Template(WorkflowInput, "ticket_content"),
                    Template("classify_ticket", "category"),
                    Template("classify_ticket", "urgency")},
     input_parameters |-> <<>>]

create_escalation_agent ==
    [task_reference_name |-> "evaluate_escalation",
     type |-> "LLM_CHAT_COMPLETE",
     templates |-> {Template(WorkflowInput, "ticket_content"),
                    Template("classify_ticket", "category"),
                    Template("classify_ticket", "urgency"),
                    Template("search_knowledge", "confidence")},
     input_parameters |-> <<>>]

NotificationInputParameters ==
    [ticket_id |-> Template(WorkflowInput, "ticket_id"),
     urgency |-> Template("classify_ticket", "urgency"),
     category |-> Template("classify_ticket", "category"),
     assigned_to |-> Template("evaluate_escalation", "assigned_team")]

create_notification_task ==
    [task_reference_name |-> "notify_team",
     type |-> "SIMPLE",
     templates |-> {NotificationInputParameters[k] : k \in DOMAIN NotificationInputParameters},
     input_parameters |-> NotificationInputParameters]

\* workflow >> task: the task is added at the end of the workflow's task list.
Rshift(tasks, task) == Append(tasks, task)

\* line 157 with the last two tasks exchanged.
create_support_triage_workflow_swapped ==
    Rshift(Rshift(Rshift(Rshift(<<>>, create_classifier_agent), create_knowledge_agent),
                  create_notification_task), create_escalation_agent)
\* line 157: workflow >> classifier >> knowledge >> escalation >> notification
create_support_triage_workflow ==
    Rshift(Rshift(Rshift(Rshift(<<>>, create_classifier_agent), create_knowledge_agent),
                  create_escalation_agent), create_notification_task)

(***************************************************************************)
(* The orchestration platform: it runs the tasks of a started workflow in  *)
(* the order of the definition, scheduling a task when the one before it   *)
(* has completed, and resolves a task's templates when it schedules it.    *)
(***************************************************************************)
LlmOutputs(ref) ==
    CASE ref = "classify_ticket" ->
            {[category |-> Str("technical"), urgency |-> u] :
                u \in {Str("critical"), Str("medium")}}
      [] ref = "search_knowledge" -> {[confidence |-> Str("80")]}
      [] ref = "evaluate_escalation" ->
            {[assigned_team |-> t] : t \in {Str("technical-support"), Str("billing-team")}}
            \cup {[reasoning |-> Str("no team given")]}
      [] OTHER -> {}

\* The value of a template in an execution: null when the source has no
\* completed task or the output has no such field.
Resolve(tpl, e) ==
    IF tpl.source = WorkflowInput
    THEN DictGet(e.input, tpl.field, None)
    ELSE LET done == {i \in 1..Len(e.tasks) :
                        /\ e.tasks[i].reference_task_name = tpl.source
                        /\ e.tasks[i].status = "COMPLETED"}
         IN  IF done = {} THEN None
             ELSE DictGet(e.tasks[CHOOSE i \in done : TRUE].output_data, tpl.field, None)

\* A task of the definition, scheduled in execution e.
Scheduled(def, e) ==
    [reference_task_name |-> def.task_reference_name,
     task_type |-> def.type,
     status |-> "SCHEDULED",
     input_data |-> [k \in DOMAIN def.input_parameters |->
                        Resolve(def.input_parameters[k], e)],
     output_data |-> <<>>]

\* The platform starts an execution of the workflow on a ticket.
StartWorkflow(ticket) ==
    LET e == [input |-> ticket, status |-> "RUNNING", tasks |-> <<>>]
    IN  [e EXCEPT !.tasks = <<Scheduled(create_support_triage_workflow[1], e)>>]

\* The last task of e ends with `status` and `output`; on completion the next
\* task of the definition is scheduled, or the workflow is complete.
Decide(e, status, output) ==
    LET n == Len(e.tasks)
        ended == [e EXCEPT !.tasks[n].status = status, !.tasks[n].output_data = output]
    IN  IF status # "COMPLETED" THEN [ended EXCEPT !.status = "FAILED"]
        ELSE IF n = Len(create_support_triage_workflow)
        THEN [ended EXCEPT !.status = "COMPLETED"]
        ELSE [ended EXCEPT !.tasks =
                Append(ended.tasks, Scheduled(create_support_triage_workflow[n + 1], ended))]

Running(w, type) ==
    /\ w \in 1..Len(executions)
    /\ executions[w].status = "RUNNING"
    /\ executions[w].tasks[Len(executions[w].tasks)].task_type = type
    /\ executions[w].tasks[Len(executions[w].tasks)].status = "SCHEDULED"

\* The model endpoint answers an LLM task.
LlmCompletes(w) ==
    /\ Running(w, "LLM_CHAT_COMPLETE")
    /\ \E out \in LlmOutputs(executions[w].tasks[Len(executions[w].tasks)].reference_task_name) :
        executions' = [executions EXCEPT ![w] = Decide(@, "COMPLETED", out)]
    /\ UNCHANGED <<mainVars, seqVars, concVars>>

\* The model endpoint fails an LLM task.
LlmFails(w) ==
    /\ Running(w, "LLM_CHAT_COMPLETE")
    /\ executions' = [executions EXCEPT ![w] = Decide(@, "FAILED", <<>>)]
    /\ UNCHANGED <<mainVars, seqVars, concVars>>

\* line 78: a worker process polls the notification task and runs
\* send_notification on its input.
WorkerRuns(w) ==
    /\ Running(w, "SIMPLE")
    /\ LET t == executions[w].tasks[Len(executions[w].tasks)]
           out == send_notification(t.input_data)
       IN  executions' = [executions EXCEPT ![w] =
                IF out.raised THEN Decide(@, "FAILED", <<>>)
                ELSE Decide(@, "COMPLETED", out.value)]
    /\ UNCHANGED <<mainVars, seqVars, concVars>>

(***************************************************************************)
(* main, lines 214-257: the submission loop and the summary.               *)
(***************************************************************************)
test_tickets ==
    <<[ticket_id |-> Str("TKT-001"),
       ticket_content |-> Str("I can't log into my account. I've tried resetting my password but I'm not receiving the email.")],
      [ticket_id |-> Str("TKT-002"),
       ticket_content |-> Str("URGENT: Our production system is down and we're losing money every minute. This is critical!")],
      [ticket_id |-> Str("TKT-003"),
       ticket_content |-> Str("Hi, I was charged twice for my subscription this month. Can you help?")]>>

InitFlow ==
    /\ mpc = "loop"
    /\ idx = 1
    /\ workflow_ids = <<>>
    /\ attempts = <<>>
    /\ reported = <<>>
    /\ executions = <<>>

\* lines 240-245: execute returns; its value is appended to workflow_ids.
ExecuteReturns ==
    /\ mpc = "loop"
    /\ idx <= Len(test_tickets)
    /\ LET workflow_id == Len(executions) + 1
       IN  /\ executions' = Append(executions, StartWorkflow(test_tickets[idx]))
           /\ workflow_ids' = Append(workflow_ids, workflow_id)
           /\ attempts' = Append(attempts, [ticket |-> idx, id |-> workflow_id])
    /\ idx' = idx + 1
    /\ UNCHANGED <<mpc, reported, seqVars, concVars>>

\* line 240 raising with no handler around it: the script ends there.
ExecuteRaises_uncaught ==
    /\ mpc = "loop"
    /\ idx <= Len(test_tickets)
    /\ attempts' = Append(attempts, [ticket |-> idx, id |-> 0])
    /\ mpc' = "crashed"
    /\ UNCHANGED <<idx, workflow_ids, reported, executions, seqVars, concVars>>
\* lines 240, 247-248: execute raises; the handler prints and the loop goes on.
ExecuteRaises ==
    /\ mpc = "loop"
    /\ idx <= Len(test_tickets)
    /\ attempts' = Append(attempts, [ticket |-> idx, id |-> 0])
    /\ idx' = idx + 1
    /\ UNCHANGED <<mpc, workflow_ids, reported, executions, seqVars, concVars>>

\* lines 250-257: after the loop, the summary prints len(workflow_ids).
Summary ==
    /\ mpc = "loop"
    /\ idx > Len(test_tickets)
    /\ reported' = Append(reported, Len(workflow_ids))
    /\ mpc' = "done"
    /\ UNCHANGED <<idx, workflow_ids, attempts, executions, seqVars, concVars>>

Init == InitSeq /\ InitConc /\ InitFlow
NextSeq == Tick \/ Dispatch
SpecSeq == Init /\ [][NextSeq]_vars
NextConc == \E r \in Requests : Invoke(r) \/ L81(r) \/ L91(r) \/ L92(r) \/ L97(r)
SpecConc == Init /\ [][NextConc]_vars
NextFlow ==
    \/ ExecuteReturns
    \/ ExecuteRaises
    \/ Summary
    \/ \E w \in 1..Len(test_tickets) : LlmCompletes(w) \/ LlmFails(w) \/ WorkerRuns(w)
SpecFlow == Init /\ [][NextFlow]_vars

(***************************************************************************)
(* Properties of send_notification, over the recorded invocations.         *)
(***************************************************************************)
Has(c, k) == k \in DOMAIN c.task_input
Field(c, k) == c.task_input[k]
CallSet == {calls[i] : i \in 1..Len(calls)}
ResultKeys == {"notification_sent", "channels", "timestamp", "assigned_team"}

\* C1: an urgency of exactly "critical" or "high" yields the channels
\* slack, email, pagerduty, in that order and nothing else, whatever the
\* other fields of the payload are.
C1_UrgentChannels ==
    \A c \in CallSet :
        (Has(c, "urgency") /\ Field(c, "urgency") \in {Str("critical"), Str("high")})
        => /\ ~c.outcome.raised
           /\ c.outcome.value.channels = <<Str("slack"), Str("email"), Str("pagerduty")>>
C1_Witness ==
    \E c \in CallSet : \E d \in CallSet :
        /\ Has(c, "urgency") /\ Field(c, "urgency") = Str("critical")
        /\ Has(d, "urgency") /\ Field(d, "urgency") = Str("high")
        /\ DOMAIN c.task_input # DOMAIN d.task_input
        /\ ~c.outcome.raised /\ ~d.outcome.raised

\* C2: any other urgency (another level, the empty string, a missing key, an
\* unknown or differently-cased string) yields exactly the channel email; the
\* channels of a result are never empty.
C2_DefaultChannel ==
    \A c \in CallSet :
        /\ (~Has(c, "urgency") \/ Field(c, "urgency") \notin {Str("critical"), Str("high")})
           => /\ ~c.outcome.raised
              /\ c.outcome.value.channels = <<Str("email")>>
        /\ ~c.outcome.raised => Len(c.outcome.value.channels) > 0
C2_Witness ==
    \E c \in CallSet : \E d \in CallSet :
        /\ ~Has(c, "urgency") /\ ~c.outcome.raised
        /\ Has(d, "urgency") /\ Field(d, "urgency") = Str("HIGH") /\ ~d.outcome.raised

\* C3: assigned_team is the payload's assigned_to when the key is given and
\* "support-team" when it is not; the other three fields never change it.
C3_AssignedTeam ==
    /\ \A c \in CallSet :
        /\ ~c.outcome.raised
        /\ Has(c, "assigned_to") => c.outcome.value.assigned_team = Field(c, "assigned_to")
        /\ ~Has(c, "assigned_to") => c.outcome.value.assigned_team = Str("support-team")
    /\ \A c \in CallSet : \A d \in CallSet :
        (/\ Has(c, "assigned_to") = Has(d, "assigned_to")
         /\ Has(c, "assigned_to") => Field(c, "assigned_to") = Field(d, "assigned_to"))
        => c.outcome.value.assigned_team = d.outcome.value.assigned_team
C3_Witness ==
    \E c \in CallSet : \E d \in CallSet :
        /\ Has(c, "assigned_to") /\ Field(c, "assigned_to") = Str("billing-team")
        /\ c.outcome.value.assigned_team = Str("billing-team")
        /\ ~Has(d, "assigned_to")
        /\ d.outcome.value.assigned_team = Str("support-team")

\* C4 as stated: an assigned_to that is present but empty gives the default
\* team, as a missing key does.
C4_EmptyGivesDefault ==
    \A c \in CallSet :
        (Has(c, "assigned_to") /\ Field(c, "assigned_to") = Str(""))
        => (~c.outcome.raised /\ c.outcome.value.assigned_team = Str("support-team"))
\* C4 amended: an assigned_to that is present but empty is echoed as the empty
\* string and is not replaced by the default team.
C4_EmptyIsEchoed ==
    \A c \in CallSet :
        (Has(c, "assigned_to") /\ Field(c, "assigned_to") = Str(""))
        => /\ ~c.outcome.raised
           /\ c.outcome.value.assigned_team = Str("")
           /\ c.outcome.value.assigned_team # Str("support-team")
C4_Witness ==
    \E c \in CallSet :
        /\ Has(c, "assigned_to") /\ Field(c, "assigned_to") = Str("")
        /\ ~c.outcome.raised /\ c.outcome.value.assigned_team = Str("")

\* C5: two invocations with the same urgency (equal, or missing in both)
\* return the same channels, however the other fields differ.
SameUrgency(c, d) ==
    /\ Has(c, "urgency") = Has(d, "urgency")
    /\ Has(c, "urgency") => Field(c, "urgency") = Field(d, "urgency")
C5_ChannelsByUrgencyOnly ==
    \A i \in 1..Len(calls) : \A j \in 1..Len(calls) :
        (i # j /\ SameUrgency(calls[i], calls[j]))
        => /\ ~calls[i].outcome.raised /\ ~calls[j].outcome.raised
           /\ calls[i].outcome.value.channels = calls[j].outcome.value.channels
C5_Witness ==
    /\ Len(calls) = 2
    /\ SameUrgency(calls[1], calls[2])
    /\ Has(calls[1], "category") /\ Has(calls[2], "category")
    /\ Field(calls[1], "category") # Field(calls[2], "category")
    /\ Has(calls[1], "ticket_id") # Has(calls[2], "ticket_id")
    /\ Has(calls[1], "assigned_to") # Has(calls[2], "assigned_to")
    /\ calls[1].outcome.value.channels = calls[2].outcome.value.channels

\* C6: every call returns, with exactly the keys notification_sent, channels,
\* timestamp and assigned_team, and notification_sent true.
C6_Total ==
    \A c \in CallSet :
        /\ ~c.outcome.raised
        /\ DOMAIN c.outcome.value = ResultKeys
        /\ c.outcome.value.notification_sent = TRUE
C6_Witness ==
    \E c \in CallSet : \E d \in CallSet :
        /\ DOMAIN c.task_input = {} /\ ~c.outcome.raised
        /\ DOMAIN d.task_input = Keys /\ ~d.outcome.raised

\* C7 as stated: the timestamp of a result is the clock reading at its own
\* invocation, so invocations at different instants have different timestamps.
C7_TimestampIsNow ==
    /\ \A c \in CallSet :
        ~c.outcome.raised => c.outcome.value.timestamp = ClockString(c.at)
    /\ \A c \in CallSet : \A d \in CallSet :
        (c.at # d.at /\ ~c.outcome.raised /\ ~d.outcome.raised)
        => c.outcome.value.timestamp # d.outcome.value.timestamp

(***************************************************************************)
(* Properties of concurrent invocations.                                   *)
(***************************************************************************)
ExpectedChannels(p) ==
    IF "urgency" \in DOMAIN p /\ p["urgency"] \in {Str("critical"), Str("high")}
    THEN <<Str("slack"), Str("email"), Str("pagerduty")>>
    ELSE <<Str("email")>>
ExpectedTeam(p) ==
    IF "assigned_to" \in DOMAIN p THEN p["assigned_to"] ELSE Str("support-team")
Allocated(r) == pc[r] \in {"l92", "l97", "returned"}

\* C8: under every interleaving, the result of an invocation is determined by
\* its own payload, the channels list of one invocation is never the list of
\* another, and the payload is left as it was delivered.
C8_Independent ==
    /\ \A r \in Requests :
        /\ pc[r] # "raised"
        /\ pc[r] # "idle" => task_input[r] = delivered[r]
        /\ pc[r] = "returned"
           => /\ heap[result[r].channels] = ExpectedChannels(delivered[r])
              /\ result[r].assigned_team = ExpectedTeam(delivered[r])
              /\ result[r].notification_sent
    /\ \A r \in Requests : \A q \in Requests :
        (r # q /\ Allocated(r) /\ Allocated(q))
        => frame[r].notification_channels # frame[q].notification_channels
C8_Witness ==
    \E r \in Requests : \E q \in Requests :
        /\ r # q
        /\ pc[r] = "returned" /\ pc[q] = "returned"
        /\ result[r].channels > result[q].channels
        /\ heap[result[r].channels] = <<Str("email")>>
        /\ heap[result[q].channels] = <<Str("slack"), Str("email"), Str("pagerduty")>>

(***************************************************************************)
(* Properties of the workflow definition and of its executions.            *)
(***************************************************************************)
Chain == create_support_triage_workflow
RefAt(i) == Chain[i].task_reference_name
Position(ref) == {i \in 1..Len(Chain) : RefAt(i) = ref}

\* C9: the workflow is the chain classify_ticket, search_knowledge,
\* evaluate_escalation, notify_team; a task is scheduled only when all tasks
\* before it have completed; a task reads only the workflow input and outputs
\* of earlier tasks; notify_team takes urgency and category from
\* classify_ticket and assigned_to from evaluate_escalation's assigned_team,
\* and is never scheduled before evaluate_escalation has produced its output.
C9_LinearChain ==
    /\ [i \in 1..Len(Chain) |-> RefAt(i)]
         = <<"classify_ticket", "search_knowledge", "evaluate_escalation", "notify_team">>
    /\ \A i \in 1..Len(Chain) : \A tpl \in Chain[i].templates :
         \/ tpl.source = WorkflowInput
         \/ \E j \in 1..(i - 1) : RefAt(j) = tpl.source
    /\ \A i \in Position("notify_team") :
         /\ Chain[i].input_parameters["urgency"] = Template("classify_ticket", "urgency")
         /\ Chain[i].input_parameters["category"] = Template("classify_ticket", "category")
         /\ Chain[i].input_parameters["assigned_to"]
              = Template("evaluate_escalation", "assigned_team")
    /\ \A w \in 1..Len(executions) :
         LET ts == executions[w].tasks
         IN  \A i \in 1..Len(ts) :
               /\ ts[i].reference_task_name = RefAt(i)
               /\ \A j \in 1..(i - 1) : ts[j].status = "COMPLETED"
               /\ \A tpl \in Chain[i].templates :
                    tpl.source # WorkflowInput
                    => \E j \in 1..(i - 1) :
                          /\ ts[j].reference_task_name = tpl.source
                          /\ ts[j].status = "COMPLETED"
               /\ ts[i].reference_task_name = "notify_team"
                  => \E j \in 1..(i - 1) :
                        /\ ts[j].reference_task_name = "evaluate_escalation"
                        /\ ts[j].status = "COMPLETED"
                        /\ DOMAIN ts[j].output_data # {}
                        /\ ts[i].input_data["assigned_to"]
                             = DictGet(ts[j].output_data, "assigned_team", None)
C9_Witness ==
    \E w \in 1..Len(executions) :
        /\ executions[w].status = "COMPLETED"
        /\ Len(executions[w].tasks) = 4
        /\ executions[w].tasks[4].reference_task_name = "notify_team"
        /\ executions[w].tasks[4].status = "COMPLETED"
        /\ executions[w].tasks[4].output_data["assigned_team"] = Str("billing-team")
        /\ executions[w].tasks[4].output_data["channels"]
             = <<Str("slack"), Str("email"), Str("pagerduty")>>

(***************************************************************************)
(* Properties of main's submission loop.                                   *)
(***************************************************************************)
Succeeded == SelectSeq(attempts, LAMBDA a : a.id # 0)

\* C10: every ticket is passed to execute once, in list order, whatever the
\* earlier outcomes; a raised exception does not end the loop; workflow_ids
\* holds the ids of the successful submissions in order; the total printed is
\* their number and is at most the number of tickets.
C10_LoopSurvivesFailures ==
    /\ mpc # "crashed"
    /\ Len(attempts) = idx - 1
    /\ \A i \in 1..Len(attempts) : attempts[i].ticket = i
    /\ workflow_ids = [i \in 1..Len(Succeeded) |-> Succeeded[i].id]
    /\ mpc = "done"
       => /\ Len(attempts) = Len(test_tickets)
          /\ reported = <<Len(Succeeded)>>
          /\ reported[1] <= Len(test_tickets)
C10_Witness ==
    /\ mpc = "done"
    /\ attempts[1].id # 0
    /\ attempts[2].id = 0
    /\ attempts[3].id # 0
    /\ workflow_ids = <<attempts[1].id, attempts[3].id>>
    /\ reported = <<2>>
====
